---- MODULE Spec2Model ----
(***************************************************************************)
(* Engine Hours Keepalive (src/index.js): a Signal K plugin that watches   *)
(* each configured propulsion.<id>.runTime path and, once the path has     *)
(* been silent for startDelaySeconds, republishes the last value every     *)
(* transmitIntervalSeconds until a real update arrives.                    *)
(*                                                                         *)
(* Time is counted in whole seconds.  A timer is a handle holding the      *)
(* seconds left until it is due; the Node event loop runs a due timer      *)
(* before the clock advances, and an inbound bus event may be handled      *)
(* before or after a timer that is due at the same instant.                *)
(* app.debug and app.setPluginStatus only write to the host's log and      *)
(* dashboard; they are not part of the state.                              *)
(***************************************************************************)
EXTENDS Integers, Sequences, FiniteSets, TLC

VARIABLES
    options,        \* let options     (index.js:5)
    engines,        \* let engines     (index.js:6): sequence of heap slots
    unsubscribes,   \* let unsubscribes (index.js:7): sequence of subscriptions
    heap,           \* the engine objects that are still reachable, by slot
    subs,           \* the bus side: subscriptions whose callback is registered
    orphans,        \* armed timers that no engine field refers to any more
    out,            \* deltas handed to app.handleMessage by the last step
    step,           \* the last step taken: operation, engine, inputs
    hist            \* per slot: seconds since the silence window was armed,
                    \* deltas published since, last genuine value (history)

vars == <<options, engines, unsubscribes, heap, subs, orphans, out,
          step, hist>>

----------------------------------------------------------------------------
(* JavaScript values: a tag (typeof), a number and a string payload.       *)

PluginId == "signalk-engine-hours-keepalive"

Num(n) == [t |-> "number", n |-> n, s |-> ""]

Str(x) == [t |-> "string", n |-> 0, s |-> x]

Undefined == [t |-> "undefined", n |-> 0, s |-> ""]

Null == [t |-> "object", n |-> 0, s |-> "null"]

TypeOf(x) == x.t

\* JavaScript truthiness of a value (used by `if (x)`, `!x`, `a || b`).
Truthy(x) ==
    CASE x.t = "number" -> x.n # 0
      [] x.t = "string" -> x.s # ""
      [] OTHER -> FALSE

Digits == <<"0", "1", "2", "3", "4", "5", "6", "7", "8", "9">>

RECURSIVE NatToString(_)
NatToString(n) ==
    IF n < 10 THEN Digits[n + 1]
    ELSE NatToString(n \div 10) \o Digits[(n % 10) + 1]

\* String(x) of JavaScript.
JsString(x) ==
    CASE x.t = "number" -> IF x.n < 0 THEN "-" \o NatToString(0 - x.n)
                            ELSE NatToString(x.n)
      [] x.t = "string" -> x.s
      [] x.t = "undefined" -> "undefined"
      [] OTHER -> "null"

\* A source object {label, src}, or no source at all.
NoSource == [present |-> FALSE, label |-> Undefined, src |-> Undefined]

Source(l, s) == [present |-> TRUE, label |-> l, src |-> s]

\* meta?.source: the metadata may be missing, or may carry no source.
NoMeta == [present |-> FALSE, source |-> NoSource]

Meta(s) == [present |-> TRUE, source |-> s]

SourceOf(meta) == IF meta.present THEN meta.source ELSE NoSource

\* Timer handles.  NullHandle is the JavaScript null; a spent handle is an
\* object whose timer has fired or was cleared (clearing it again is a no-op).
NullHandle == [state |-> "null", left |-> 0, period |-> 0]

SpentHandle == [state |-> "spent", left |-> 0, period |-> 0]

Armed(n, p) == [state |-> "armed", left |-> n, period |-> p]

\* setTimeout/setInterval delay for options.x * 1000: a number of seconds;
\* NaN (a missing option) and anything below 1 ms run at once.
TimerDelay(x) == IF TypeOf(x) = "number" /\ x.n >= 1 THEN x.n ELSE 0

----------------------------------------------------------------------------
(* The bus's current-value tree as app.getSelfPath reads it: under         *)
(* 'propulsion' a list of entries <key, fields>, each field with its       *)
(* current value and the metadata stored beside it.                        *)

\* `type` is what kind of value sits there ("undefined", "null", "number",
\* "string", "object"); `present` and `isObject` say that it is an object
\* with entries to read.
NoTree == [present |-> FALSE, type |-> "undefined", entries |-> <<>>]

Tree(es) == [present |-> TRUE, type |-> "object", entries |-> es]

\* Something under 'propulsion' that is no object.
NotATree(t) == [present |-> FALSE, type |-> t, entries |-> <<>>]

Entry(k, fs) == [key |-> k, isObject |-> TRUE, type |-> "object", fields |-> fs]

\* An entry under 'propulsion' that is no object.
NotAnEntry(k, t) == [key |-> k, isObject |-> FALSE, type |-> t, fields |-> <<>>]

\* !x and typeof x for a node of the tree (typeof null is 'object').
Falsy(x) == x.type \in {"undefined", "null"}

JsTypeOf(x) == IF x.type = "null" THEN "object" ELSE x.type

\* Object.entries(x) raises a TypeError for undefined and null.
ObjectEntriesThrows(x) == x.type \in {"undefined", "null"}

Field(f, v, m) == [field |-> f, value |-> v, meta |-> m]

\* The field of path <<"propulsion", key, field>> in the tree, as a set.
Leaves(tree, path) ==
    IF ~tree.present \/ Len(path) # 3 \/ path[1] # "propulsion" THEN {}
    ELSE { tree.entries[i].fields[j] :
             <<i, j>> \in { p \in (1..Len(tree.entries)) \X (1..3) :
                 /\ tree.entries[p[1]].isObject
                 /\ p[2] <= Len(tree.entries[p[1]].fields)
                 /\ tree.entries[p[1]].key = path[2]
                 /\ tree.entries[p[1]].fields[p[2]].field = path[3] } }

\* app.getSelfPath(path): the current value, undefined when there is none.
GetSelfPath(tree, path) ==
    IF Leaves(tree, path) = {} THEN Undefined
    ELSE (CHOOSE l \in Leaves(tree, path) : TRUE).value

\* app.getSelfPath(path + '.meta')
GetSelfMeta(tree, path) ==
    IF Leaves(tree, path) = {} THEN NoMeta
    ELSE (CHOOSE l \in Leaves(tree, path) : TRUE).meta

----------------------------------------------------------------------------
(* Engine objects.  An operation on one engine works on a record m:        *)
(*   m.slot  the engine's heap slot                                        *)
(*   m.e     the engine object                                             *)
(*   m.orph  timers left armed with no field referring to them             *)
(*   m.out   deltas handed to app.handleMessage                            *)
(*   m.fail  app.handleMessage raises an error when called                 *)
(*   m.threw an error is propagating out of the operation                  *)

M(slot, e) ==
    [slot |-> slot, e |-> e, orph |-> <<>>, out |-> <<>>, fail |-> FALSE,
     threw |-> FALSE]

NoEngine ==
    [config |-> [path |-> <<>>, pathType |-> "undefined",
                 engineSource |-> Undefined],
     signalkId |-> "", basePath |-> <<>>, lastValue |-> Null,
     lastKnown |-> <<>>, timeout |-> NullHandle, interval |-> NullHandle,
     isInjecting |-> FALSE, seenSources |-> {}]

\* createEngine(config): [ok |-> FALSE] stands for the null it returns,
\* `threw` for the TypeError of config.path.split when the path is a truthy
\* value that is not a string (pathType "number": a number other than 0).
\* A string path is the sequence of its dot-separated parts, <<>> the empty
\* string; pathType "undefined" is an entry without a path.
createEngine(config, tree) ==
    IF config.pathType = "undefined"
       \/ (config.pathType = "string" /\ config.path = <<>>)
    THEN [ok |-> FALSE, threw |-> FALSE, e |-> NoEngine]
    ELSE IF config.pathType # "string"
    THEN [ok |-> FALSE, threw |-> TRUE, e |-> NoEngine]
    ELSE IF Len(config.path) < 3 \/ config.path[1] # "propulsion"
    THEN [ok |-> FALSE, threw |-> FALSE, e |-> NoEngine]
    ELSE LET id == config.path[2]
             restored == GetSelfPath(tree, config.path)
         IN  [ok |-> TRUE, threw |-> FALSE,
              e |-> [config |-> config,
                     signalkId |-> id,
                     basePath |-> <<"propulsion", id>>,
                     lastValue |-> IF TypeOf(restored) = "number"
                                   THEN restored ELSE Null,
                     lastKnown |-> <<>>,
                     timeout |-> NullHandle,
                     interval |-> NullHandle,
                     isInjecting |-> FALSE,
                     seenSources |-> {}]]

\* clearTimeout(engine.timeout) / clearInterval(engine.interval): the timer
\* behind the handle, if still armed, is removed from the event loop.
ClearHandle(h) == IF h.state = "armed" THEN SpentHandle ELSE h

\* engine.<field> = h: a timer still armed behind the old handle stays armed.
Orphaned(m, kind, old) ==
    IF old.state = "armed"
    THEN Append(m.orph, [eng |-> m.slot, kind |-> kind, left |-> old.left,
                         period |-> old.period])
    ELSE m.orph

DefaultKeepaliveFields == <<"revolutions", "oilPressure", "fuelRate">>

\* options.keepaliveFields || [...defaults]
KeepaliveFields(opts) ==
    IF opts.keepaliveFields.present THEN opts.keepaliveFields.list
    ELSE DefaultKeepaliveFields

\* emitField that publishes whatever is stored for a passive field.
emitFieldNoNullCheck(e, field) ==
    LET known == IF field \in DOMAIN e.lastKnown THEN e.lastKnown[field]
                 ELSE Undefined
        val == CASE field \in {"revolutions", "oilPressure", "fuelRate"} -> Num(0)
                 [] OTHER -> known
        suffix == CASE field = "revolutions" -> <<"revolutions">>
                    [] field = "oilPressure" -> <<"oilPressure">>
                    [] field = "fuelRate" -> <<"fuel", "rate">>
                    [] field = "oilTemperature" -> <<"oilTemperature">>
                    [] field = "temperature" -> <<"temperature">>
                    [] OTHER -> <<>>
    IN  IF suffix # <<>>
        THEN <<[path |-> e.basePath \o suffix, value |-> val]>>
        ELSE <<>>

\* The value emitDelta pushes for one field, as a sequence of 0 or 1 entries.
emitField(e, field) ==
    LET known == IF field \in DOMAIN e.lastKnown THEN e.lastKnown[field]
                 ELSE Undefined
        val == CASE field \in {"revolutions", "oilPressure", "fuelRate"} -> Num(0)
                 [] known # Undefined -> known
                 [] OTHER -> Null
        suffix == CASE field = "revolutions" -> <<"revolutions">>
                    [] field = "oilPressure" -> <<"oilPressure">>
                    [] field = "fuelRate" -> <<"fuel", "rate">>
                    [] known # Undefined /\ field = "oilTemperature" -> <<"oilTemperature">>
                    [] known # Undefined /\ field = "temperature" -> <<"temperature">>
                    [] OTHER -> <<>>
    IN  IF val # Null /\ suffix # <<>>
        THEN <<[path |-> e.basePath \o suffix, value |-> val]>>
        ELSE <<>>

RECURSIVE emitFields(_, _, _)
emitFields(e, fields, i) ==
    IF i > Len(fields) THEN <<>>
    ELSE emitField(e, fields[i]) \o emitFields(e, fields, i + 1)

\* emitDelta that advances the run time it replays by the transmit interval.
emitDeltaCounting(m, opts) ==
    LET bumped == Num(m.e.lastValue.n + TimerDelay(opts.transmitIntervalSeconds))
        values == <<[path |-> m.e.config.path, value |-> bumped]>>
                  \o emitFields(m.e, KeepaliveFields(opts), 1)
        delta == [context |-> "vessels.self",
                  source |-> [label |-> PluginId],
                  values |-> values]
    IN  [m EXCEPT !.e.lastValue = bumped,
                  !.out = Append(@, [eng |-> m.slot, id |-> PluginId,
                                     delta |-> delta])]

\* emitDelta that signs its delta with the plugin's display name.
emitDeltaOtherLabel(m, opts) ==
    LET values == <<[path |-> m.e.config.path, value |-> m.e.lastValue]>>
                  \o emitFields(m.e, KeepaliveFields(opts), 1)
        delta == [context |-> "vessels.self",
                  source |-> [label |-> "Engine Hours Keepalive"],
                  values |-> values]
    IN  IF m.fail THEN [m EXCEPT !.threw = TRUE]
        ELSE [m EXCEPT !.out = Append(@, [eng |-> m.slot, id |-> PluginId,
                                          delta |-> delta])]

\* emitDelta(engine): the delta given to app.handleMessage(plugin.id, delta).
emitDelta(m, opts) ==
    LET values == <<[path |-> m.e.config.path, value |-> m.e.lastValue]>>
                  \o emitFields(m.e, KeepaliveFields(opts), 1)
        delta == [context |-> "vessels.self",
                  source |-> [label |-> PluginId],
                  values |-> values]
    IN  IF m.fail THEN [m EXCEPT !.threw = TRUE]
        ELSE [m EXCEPT !.out = Append(@, [eng |-> m.slot, id |-> PluginId,
                                          delta |-> delta])]

\* resetSilenceTimer that waits for the transmit interval.
resetSilenceTimerShort(m, opts) ==
    LET cleared == IF m.e.timeout.state # "null"
                   THEN [m EXCEPT !.e.timeout = ClearHandle(@)] ELSE m
    IN  [cleared EXCEPT
           !.orph = Orphaned(cleared, "timeout", cleared.e.timeout),
           !.e.timeout = Armed(TimerDelay(opts.transmitIntervalSeconds), 0)]

\* resetSilenceTimer without its clearTimeout.
resetSilenceTimerNoClear(m, opts) ==
    [m EXCEPT
       !.orph = Orphaned(m, "timeout", m.e.timeout),
       !.e.timeout = Armed(TimerDelay(opts.startDelaySeconds), 0)]

resetSilenceTimer(m, opts) ==
    LET cleared == IF m.e.timeout.state # "null"
                   THEN [m EXCEPT !.e.timeout = ClearHandle(@)] ELSE m
    IN  [cleared EXCEPT
           !.orph = Orphaned(cleared, "timeout", cleared.e.timeout),
           !.e.timeout = Armed(TimerDelay(opts.startDelaySeconds), 0)]

\* startInjection without its "Send one immediately" emission.
startInjectionLate(m, opts) ==
    IF m.e.isInjecting \/ m.e.lastValue = Null THEN m
    ELSE LET d == TimerDelay(opts.transmitIntervalSeconds)
         IN  [m EXCEPT !.e.isInjecting = TRUE,
                       !.orph = Orphaned(m, "interval", m.e.interval),
                       !.e.interval = Armed(d, d)]

startInjection(m, opts) ==
    IF m.e.isInjecting \/ m.e.lastValue = Null THEN m
    ELSE LET sent == emitDelta([m EXCEPT !.e.isInjecting = TRUE], opts)
             d == TimerDelay(opts.transmitIntervalSeconds)
         IN  IF sent.threw THEN sent
             ELSE [sent EXCEPT
                     !.orph = Orphaned(sent, "interval", sent.e.interval),
                     !.e.interval = Armed(d, d)]

\* stopInjection that clears the ticker but not the silence timer.
stopInjectionKeepsTimeout(m) ==
    LET c1 == IF m.e.interval.state # "null"
              THEN [m EXCEPT !.e.interval = ClearHandle(@)] ELSE m
    IN  [c1 EXCEPT
           !.orph = Orphaned(c1, "interval", c1.e.interval)
                    \o Orphaned([c1 EXCEPT !.orph = <<>>], "timeout", c1.e.timeout),
           !.e.interval = NullHandle,
           !.e.timeout = NullHandle,
           !.e.isInjecting = FALSE]

\* stopInjection that forgets the ticker's handle without clearing it.
stopInjectionKeepsTicker(m) ==
    LET c2 == IF m.e.timeout.state # "null"
              THEN [m EXCEPT !.e.timeout = ClearHandle(@)] ELSE m
    IN  [c2 EXCEPT
           !.orph = Orphaned(c2, "interval", c2.e.interval)
                    \o Orphaned([c2 EXCEPT !.orph = <<>>], "timeout", c2.e.timeout),
           !.e.interval = NullHandle,
           !.e.timeout = NullHandle,
           !.e.isInjecting = FALSE]

stopInjection(m) ==
    LET c1 == IF m.e.interval.state # "null"
              THEN [m EXCEPT !.e.interval = ClearHandle(@)] ELSE m
        c2 == IF c1.e.timeout.state # "null"
              THEN [c1 EXCEPT !.e.timeout = ClearHandle(@)] ELSE c1
    IN  [c2 EXCEPT
           !.orph = Orphaned(c2, "interval", c2.e.interval)
                    \o Orphaned([c2 EXCEPT !.orph = <<>>], "timeout", c2.e.timeout),
           !.e.interval = NullHandle,
           !.e.timeout = NullHandle,
           !.e.isInjecting = FALSE]

recordSource(e, source) ==
    IF ~source.present THEN e
    ELSE LET key == IF Truthy(source.label) THEN source.label ELSE source.src
         IN  IF \E p \in e.seenSources : p.key = key THEN e
             ELSE [e EXCEPT !.seenSources = @ \cup {[key |-> key, source |-> source]}]

\* isRealEngineSource that never looks at the configured engineSource.
isRealEngineSourceAny(e, source) ==
    IF ~source.present THEN TRUE
    ELSE source.label # Str(PluginId)

\* isRealEngineSource that asks for a source whenever a filter is configured.
isRealEngineSourceStrict(e, source) ==
    IF ~source.present THEN ~Truthy(e.config.engineSource)
    ELSE IF source.label = Str(PluginId) THEN FALSE
    ELSE LET configured == e.config.engineSource
         IN  IF ~Truthy(configured) THEN TRUE
             ELSE \/ source.label = configured
                  \/ JsString(source.src) = JsString(configured)

\* isRealEngineSource that compares the label only.
isRealEngineSourceLabelOnly(e, source) ==
    IF ~source.present THEN TRUE
    ELSE IF source.label = Str(PluginId) THEN FALSE
    ELSE LET configured == e.config.engineSource
         IN  IF ~Truthy(configured) THEN TRUE
             ELSE source.label = configured

isRealEngineSource(e, source) ==
    IF ~source.present THEN TRUE
    ELSE IF source.label = Str(PluginId) THEN FALSE
    ELSE LET configured == e.config.engineSource
         IN  IF ~Truthy(configured) THEN TRUE
             ELSE \/ source.label = configured
                  \/ JsString(source.src) = JsString(configured)

\* handleRuntime without the stopInjection call that ends a running injection.
handleRuntimeNoStop(m, value, meta, opts) ==
    IF TypeOf(value) # "number" THEN m
    ELSE LET source == SourceOf(meta)
             rec == [m EXCEPT !.e = recordSource(@, source)]
         IN  IF source.present /\ source.label = Str(PluginId) THEN rec
             ELSE IF ~isRealEngineSource(rec.e, source) THEN rec
             ELSE resetSilenceTimer([rec EXCEPT !.e.lastValue = value], opts)

\* handleRuntime without its two source gates (loop prevention, real source).
handleRuntimeNoGate(m, value, meta, opts) ==
    IF TypeOf(value) # "number" THEN m
    ELSE LET source == SourceOf(meta)
             rec == [m EXCEPT !.e = recordSource(@, source)]
             set == [rec EXCEPT !.e.lastValue = value]
             stopped == IF set.e.isInjecting THEN stopInjection(set) ELSE set
         IN  resetSilenceTimer(stopped, opts)

\* handleRuntime without the typeof guard on the payload.
handleRuntimeNoTypeCheck(m, value, meta, opts) ==
    LET source == SourceOf(meta)
        rec == [m EXCEPT !.e = recordSource(@, source)]
    IN  IF source.present /\ source.label = Str(PluginId) THEN rec
        ELSE IF ~isRealEngineSource(rec.e, source) THEN rec
        ELSE LET set == [rec EXCEPT !.e.lastValue = value]
                 stopped == IF set.e.isInjecting THEN stopInjection(set)
                            ELSE set
             IN  resetSilenceTimer(stopped, opts)

\* handleRuntime that records the source before it looks at the payload.
handleRuntimeRecordsFirst(m, value, meta, opts) ==
    LET source == SourceOf(meta)
        rec == [m EXCEPT !.e = recordSource(@, source)]
    IN  IF TypeOf(value) # "number" THEN rec
        ELSE IF source.present /\ source.label = Str(PluginId) THEN rec
        ELSE IF ~isRealEngineSource(rec.e, source) THEN rec
        ELSE LET set == [rec EXCEPT !.e.lastValue = value]
                 stopped == IF set.e.isInjecting THEN stopInjection(set)
                            ELSE set
             IN  resetSilenceTimer(stopped, opts)

\* handleRuntime that stops the injection before it looks at the source.
handleRuntimeStopsFirst(m, value, meta, opts) ==
    IF TypeOf(value) # "number" THEN m
    ELSE LET source == SourceOf(meta)
             rec == [m EXCEPT !.e = recordSource(@, source)]
             stopped == IF rec.e.isInjecting THEN stopInjection(rec) ELSE rec
         IN  IF source.present /\ source.label = Str(PluginId) THEN stopped
             ELSE IF ~isRealEngineSource(rec.e, source) THEN stopped
             ELSE resetSilenceTimer([stopped EXCEPT !.e.lastValue = value],
                                    opts)

handleRuntime(m, value, meta, opts) ==
    IF TypeOf(value) # "number" THEN m
    ELSE LET source == SourceOf(meta)
             rec == [m EXCEPT !.e = recordSource(@, source)]
         IN  IF source.present /\ source.label = Str(PluginId) THEN rec
             ELSE IF ~isRealEngineSource(rec.e, source) THEN rec
             ELSE LET set == [rec EXCEPT !.e.lastValue = value]
                      stopped == IF set.e.isInjecting THEN stopInjection(set)
                                 ELSE set
                  IN  resetSilenceTimer(stopped, opts)

\* emitDelta under a bus that delivers the delta to the plugin's own
\* runtime subscription before app.handleMessage returns: the callback of
\* subscribe runs inside emitDelta with the published value, and its
\* metadata lookup gives no source.
emitDeltaEcho(m, opts) ==
    LET sent == emitDelta(m, opts)
    IN  IF sent.threw THEN sent
        ELSE handleRuntime(sent, sent.e.lastValue, NoMeta, opts)

\* startInjection under that bus.
startInjectionEcho(m, opts) ==
    IF m.e.isInjecting \/ m.e.lastValue = Null THEN m
    ELSE LET sent == emitDeltaEcho([m EXCEPT !.e.isInjecting = TRUE], opts)
             d == TimerDelay(opts.transmitIntervalSeconds)
         IN  IF sent.threw THEN sent
             ELSE [sent EXCEPT
                     !.orph = Orphaned(sent, "interval", sent.e.interval),
                     !.e.interval = Armed(d, d)]

----------------------------------------------------------------------------
(* Discovery.                                                              *)

\* field.toLowerCase(), for the field names the trees below use.
ToLowerCase(f) ==
    CASE f = "runTime" -> "runtime"
      [] f = "RunHours" -> "runhours"
      [] f = "runHours" -> "runhours"
      [] f = "RUNTIME" -> "runtime"
      [] f = "runTimeTotal" -> "runtimetotal"
      [] f = "Revolutions" -> "revolutions"
      [] OTHER -> f

\* discoverEngines that compares the field name as it is spelled.
discoverFieldCaseSensitive(key, fld) ==
    LET fieldLower == fld.field
        meta == fld.meta
        sourceLabel == IF meta.present /\ meta.source.present
                          /\ Truthy(meta.source.label)
                       THEN meta.source.label ELSE Str("unknown")
    IN  IF fieldLower = "runtime" \/ fieldLower = "runhours"
        THEN <<[path |-> <<"propulsion", key, fld.field>>,
                unit |-> IF fieldLower = "runtime" THEN "seconds" ELSE "hours",
                source |-> sourceLabel]>>
        ELSE <<>>

discoverField(key, fld) ==
    LET fieldLower == ToLowerCase(fld.field)
        meta == fld.meta
        sourceLabel == IF meta.present /\ meta.source.present
                          /\ Truthy(meta.source.label)
                       THEN meta.source.label ELSE Str("unknown")
    IN  IF fieldLower = "runtime" \/ fieldLower = "runhours"
        THEN <<[path |-> <<"propulsion", key, fld.field>>,
                unit |-> IF fieldLower = "runtime" THEN "seconds" ELSE "hours",
                source |-> sourceLabel]>>
        ELSE <<>>

RECURSIVE discoverFields(_, _, _)
discoverFields(key, fields, j) ==
    IF j > Len(fields) THEN <<>>
    ELSE discoverField(key, fields[j]) \o discoverFields(key, fields, j + 1)

RECURSIVE discoverEntries(_, _)
discoverEntries(entries, i) ==
    IF i > Len(entries) THEN <<>>
    ELSE (IF entries[i].isObject
          THEN discoverFields(entries[i].key, entries[i].fields, 1)
          ELSE <<>>) \o discoverEntries(entries, i + 1)

discoverEngines(tree) ==
    IF ~tree.present THEN <<>> ELSE discoverEntries(tree.entries, 1)

\* discoverEngines whose two guards test typeof only.
discoverThrowsTypeofOnly(tree) ==
    IF JsTypeOf(tree) # "object" THEN FALSE
    ELSE \/ ObjectEntriesThrows(tree)
         \/ \E i \in 1..Len(tree.entries) :
               /\ ~(JsTypeOf(tree.entries[i]) # "object")
               /\ ObjectEntriesThrows(tree.entries[i])

\* Whether discoverEngines ends with an error: Object.entries is reached
\* only behind the guards of lines 363 and 371.
discoverThrows(tree) ==
    IF Falsy(tree) \/ JsTypeOf(tree) # "object" THEN FALSE
    ELSE \/ ObjectEntriesThrows(tree)
         \/ \E i \in 1..Len(tree.entries) :
               /\ ~(Falsy(tree.entries[i])
                    \/ JsTypeOf(tree.entries[i]) # "object")
               /\ ObjectEntriesThrows(tree.entries[i])

----------------------------------------------------------------------------
(* History kept beside each engine object, for stating the properties.     *)

MaxAge == 4

\* `fresh`: the engine was created with a restored value and no genuine
\* update has arrived since (kept for the engine's first silence window,
\* that is while `since` is at most the silence delay);
\* `obs`: per passive field, the last value its callback was given and the
\* one before it.
NewHist(e) ==
    [since |-> 0, pubs |-> 0, genuine |-> e.lastValue,
     fresh |-> e.lastValue # Null, obs |-> <<>>]

\* The spec's Source Arbiter (section 4.2) on a primary-path event: a number
\* that is not self-authored and is permitted by the channel's source filter.
Genuine(e, value, source) ==
    /\ TypeOf(value) = "number"
    /\ \/ ~source.present
       \/ /\ source.label # Str(PluginId)
          /\ \/ ~Truthy(e.config.engineSource)
             \/ source.label = e.config.engineSource
             \/ JsString(source.src) = JsString(e.config.engineSource)

\* The history of an engine object that plugin.start has dropped from the
\* collection: it is counted no further, only the last genuine value is
\* kept up to date.
Retired(h) == [h EXCEPT !.since = MaxAge, !.pubs = 0, !.fresh = FALSE]

Published(o, slot) == Len(SelectSeq(o, LAMBDA d : d.eng = slot))

\* The record of a step: the operation, the engine and the event it was
\* about, whether that engine was injecting before it; `life` is the last
\* start()/stop() call so far ("start", "discover" for a discovery-only
\* start, "stop"), `before` the one before a start()/stop() step; `bus` is,
\* for a start() step, what the bus held at each created engine's path;
\* `threw` tells that the step ended with an error raised out of it; `tree`
\* and `monitored` are, for a start() step, what the bus held under
\* 'propulsion' and the list of entries start() went through; `wasArmed`
\* and `wasDue` tell, for a runtime callback, whether before the step the
\* engine's silence timer was pending and whether its ticker was due at
\* that very instant.
Step(op, eng, val, src, wasInj) ==
    [op |-> op, eng |-> eng, val |-> val, src |-> src, wasInj |-> wasInj,
     life |-> step.life, before |-> "",
     stopped |-> <<>>, called |-> <<>>, bus |-> <<>>, threw |-> FALSE,
     tree |-> NoTree, monitored |-> <<>>,
     wasArmed |-> IF op = "runtime" /\ eng \in DOMAIN heap
                  THEN heap[eng].timeout.state = "armed" ELSE FALSE,
     wasDue |-> IF op = "runtime" /\ eng \in DOMAIN heap
                THEN heap[eng].interval.state = "armed"
                     /\ heap[eng].interval.left = 0
                ELSE FALSE]

----------------------------------------------------------------------------
(* The engine objects in memory.                                           *)

MaxObjs == 2

Slots == 1..MaxObjs

HasArmed(hp, orph, s) ==
    \/ hp[s].timeout.state = "armed"
    \/ hp[s].interval.state = "armed"
    \/ \E i \in 1..Len(orph) : orph[i].eng = s

\* An engine object stays in memory while the controller lists it, a
\* registered subscription callback refers to it, or an armed timer does.
Reachable(hp, engs, sb, orph, s) ==
    \/ \E i \in 1..Len(engs) : engs[i] = s
    \/ \E u \in sb : u.eng = s
    \/ HasArmed(hp, orph, s)

Collect(hp, engs, sb, orph) ==
    [s \in {x \in DOMAIN hp : Reachable(hp, engs, sb, orph, x)} |-> hp[s]]

\* The slot of a new object: the lowest one not in use.
FreeSlot(hp) ==
    CHOOSE s \in (1..(Cardinality(DOMAIN hp) + 1)) \ DOMAIN hp :
        \A x \in (1..(Cardinality(DOMAIN hp) + 1)) \ DOMAIN hp : s <= x

----------------------------------------------------------------------------
(* plugin.start                                                            *)

\* The subscriptions subscribe(engine) registers for the keepalive fields:
\* one per passive field, none for the fields emitDelta forces to 0.
RECURSIVE fieldSubs(_, _, _)
fieldSubs(slot, fields, i) ==
    IF i > Len(fields) THEN <<>>
    ELSE (IF fields[i] \in {"oilTemperature", "temperature"}
          THEN <<[eng |-> slot, k |-> i, field |-> fields[i]]>>
          ELSE <<>>) \o fieldSubs(slot, fields, i + 1)

Range(q) == { q[i] : i \in 1..Len(q) }

\* subscribe without the cold-start arming of the silence timer.
subscribeNoColdStart(acc, slot, opts) ==
    LET new == <<[eng |-> slot, k |-> 0, field |-> "runTime"]>>
               \o fieldSubs(slot, KeepaliveFields(opts), 1)
    IN  [acc EXCEPT !.unsubscribes = @ \o new,
                    !.subs = @ \cup Range(new)]

\* subscribe that arms the silence timer whether or not a value was restored.
subscribeAlwaysArms(acc, slot, opts) ==
    LET new == <<[eng |-> slot, k |-> 0, field |-> "runTime"]>>
               \o fieldSubs(slot, KeepaliveFields(opts), 1)
        e == acc.heap[slot]
        m == resetSilenceTimer(M(slot, e), opts)
    IN  [acc EXCEPT !.unsubscribes = @ \o new,
                    !.subs = @ \cup Range(new),
                    !.heap = [@ EXCEPT ![slot] = m.e],
                    !.orphans = @ \o m.orph]

\* subscribe(engine), on the controller state acc.
subscribe(acc, slot, opts) ==
    LET new == <<[eng |-> slot, k |-> 0, field |-> "runTime"]>>
               \o fieldSubs(slot, KeepaliveFields(opts), 1)
        e == acc.heap[slot]
        m == IF e.lastValue # Null /\ e.lastValue # Undefined
             THEN resetSilenceTimer(M(slot, e), opts) ELSE M(slot, e)
    IN  [acc EXCEPT !.unsubscribes = @ \o new,
                    !.subs = @ \cup Range(new),
                    !.heap = [@ EXCEPT ![slot] = m.e],
                    !.orphans = @ \o m.orph]

\* configsToMonitor.forEach(cfg => ...); an error raised by createEngine
\* ends the loop and leaves start().
RECURSIVE startEach(_, _, _, _, _)
startEach(acc, cfgs, i, opts, tree) ==
    IF i > Len(cfgs) THEN acc
    ELSE LET made == createEngine(cfgs[i], tree)
         IN  IF made.threw THEN [acc EXCEPT !.threw = TRUE]
             ELSE IF ~made.ok THEN startEach(acc, cfgs, i + 1, opts, tree)
             ELSE LET slot == FreeSlot(acc.heap)
                      pushed == [acc EXCEPT
                                   !.heap = (slot :> made.e) @@ @,
                                   !.hist = (slot :> NewHist(made.e)) @@ @,
                                   !.engines = Append(@, slot)]
                  IN  startEach(subscribe(pushed, slot, opts), cfgs, i + 1,
                                opts, tree)

\* The merge that also appends the discovered paths to a manual list.
configsToMonitorAugmented(opts, tree) ==
    LET discovered == discoverEngines(tree)
        manual == IF opts.engines.present THEN opts.engines.list ELSE <<>>
    IN  manual \o [i \in 1..Len(discovered) |->
                     [path |-> discovered[i].path, pathType |-> "string",
                      engineSource |-> Str("")]]

configsToMonitor(opts, tree) ==
    LET discovered == discoverEngines(tree)
        manual == IF opts.engines.present THEN opts.engines.list ELSE <<>>
    IN  IF Len(manual) = 0 /\ Len(discovered) > 0
        THEN [i \in 1..Len(discovered) |->
                [path |-> discovered[i].path, pathType |-> "string",
                 engineSource |-> Str("")]]
        ELSE manual

Creatable(cfgs, tree) ==
    Cardinality({i \in 1..Len(cfgs) : createEngine(cfgs[i], tree).ok})

\* plugin.start(opts), with `tree` what the bus holds under 'propulsion'.
start(opts, tree) ==
    LET thrown == discoverThrows(tree)
        cfgs == IF thrown THEN <<>> ELSE configsToMonitor(opts, tree)
        acc0 == [heap |-> heap, hist |-> hist, engines |-> <<>>,
                 unsubscribes |-> <<>>, subs |-> subs, orphans |-> orphans,
                 threw |-> thrown]
        acc == IF thrown \/ opts.discoverOnly \/ Len(cfgs) = 0 THEN acc0
               ELSE startEach(acc0, cfgs, 1, opts, tree)
    IN  /\ options' = opts
        /\ engines' = acc.engines
        /\ unsubscribes' = acc.unsubscribes
        /\ subs' = acc.subs
        /\ orphans' = acc.orphans
        /\ heap' = Collect(acc.heap, acc.engines, acc.subs, acc.orphans)
        /\ hist' = [s \in DOMAIN heap' |->
                      IF s \in Range(acc.engines) THEN acc.hist[s]
                      ELSE Retired(acc.hist[s])]
        /\ out' = <<>>
        /\ step' = [Step("start", 0, Undefined, NoSource, FALSE)
                      EXCEPT !.life = IF opts.discoverOnly THEN "discover"
                                      ELSE "start",
                             !.before = step.life,
                             !.bus = [i \in 1..Len(acc.engines) |->
                                        GetSelfPath(tree,
                                          acc.heap[acc.engines[i]].config.path)],
                             !.threw = acc.threw,
                             !.tree = tree,
                             !.monitored = cfgs]

\* plugin.start while the engine objects it creates fit in the memory the
\* model keeps.
Start(opts, tree) ==
    /\ \/ opts.discoverOnly
       \/ Creatable(configsToMonitor(opts, tree), tree)
             <= Cardinality(Slots \ DOMAIN heap)
    /\ start(opts, tree)

----------------------------------------------------------------------------
(* plugin.stop                                                             *)

\* engines.forEach(stopInjection)
RECURSIVE stopEach(_, _, _)
stopEach(acc, engs, i) ==
    IF i > Len(engs) THEN acc
    ELSE LET m == stopInjection(M(engs[i], acc.heap[engs[i]]))
         IN  stopEach([acc EXCEPT !.heap = [@ EXCEPT ![engs[i]] = m.e],
                                  !.orphans = @ \o m.orph,
                                  !.stopped = Append(@,
                                      [timeout |-> m.e.timeout,
                                       interval |-> m.e.interval,
                                       isInjecting |-> m.e.isInjecting])],
                      engs, i + 1)

\* unsubscribes.forEach(unsub => unsub())
RECURSIVE unsubEach(_, _, _)
unsubEach(acc, unsubs, i) ==
    IF i > Len(unsubs) THEN acc
    ELSE unsubEach([acc EXCEPT
                      !.called = Append(@, [sub |-> unsubs[i],
                                            active |-> unsubs[i] \in acc.subs]),
                      !.subs = @ \ {unsubs[i]}],
                   unsubs, i + 1)

\* plugin.stop that forgets to empty its two lists.
StopKeepsLists ==
    LET acc0 == [heap |-> heap, orphans |-> orphans, subs |-> subs,
                 stopped |-> <<>>, called |-> <<>>]
        acc == unsubEach(stopEach(acc0, engines, 1), unsubscribes, 1)
    IN  /\ subs' = acc.subs
        /\ orphans' = acc.orphans
        /\ heap' = Collect(acc.heap, engines, acc.subs, acc.orphans)
        /\ hist' = [s \in DOMAIN heap' |-> hist[s]]
        /\ out' = <<>>
        /\ step' = [Step("stop", 0, Undefined, NoSource,
                          \E i \in 1..Len(engines) :
                              heap[engines[i]].isInjecting)
                      EXCEPT !.life = "stop", !.before = step.life,
                             !.stopped = acc.stopped, !.called = acc.called]
        /\ UNCHANGED <<options, engines, unsubscribes>>

Stop ==
    LET acc0 == [heap |-> heap, orphans |-> orphans, subs |-> subs,
                 stopped |-> <<>>, called |-> <<>>]
        acc == unsubEach(stopEach(acc0, engines, 1), unsubscribes, 1)
    IN  /\ engines' = <<>>
        /\ unsubscribes' = <<>>
        /\ subs' = acc.subs
        /\ orphans' = acc.orphans
        /\ heap' = Collect(acc.heap, <<>>, acc.subs, acc.orphans)
        /\ hist' = [s \in DOMAIN heap' |-> hist[s]]
        /\ out' = <<>>
        /\ step' = [Step("stop", 0, Undefined, NoSource,
                          \E i \in 1..Len(engines) :
                              heap[engines[i]].isInjecting)
                      EXCEPT !.life = "stop", !.before = step.life,
                             !.stopped = acc.stopped, !.called = acc.called]
        /\ UNCHANGED options

----------------------------------------------------------------------------
(* Bus events and timers.                                                  *)

\* History after an engine operation that published m.out; `genuine` tells
\* whether the operation was the arrival of a genuine update of `value`.
NextHist(h, m, genuine, value) ==
    IF genuine THEN [h EXCEPT !.since = 0, !.pubs = 0, !.genuine = value,
                              !.fresh = FALSE]
    ELSE IF h.since = MaxAge THEN h
    ELSE [h EXCEPT !.pubs = @ + Published(m.out, m.slot)]

\* The callback of subscribe's stream.onValue for the runtime path: the bus
\* delivers `value`, and the metadata lookup made by the callback gives `meta`.
\* A runtime callback whose closure holds the engine created last.
RuntimeEventLastEngine(sub, value, meta) ==
    LET s == engines[Len(engines)]
        m == handleRuntime(M(s, heap[s]), value, meta, options)
    IN  /\ sub \in subs
        /\ sub.k = 0
        /\ heap' = [heap EXCEPT ![s] = m.e]
        /\ orphans' = orphans \o m.orph
        /\ out' = m.out
        /\ hist' = [hist EXCEPT ![s] =
                      LET h == NextHist(@, m,
                                        Genuine(heap[s], value, SourceOf(meta)),
                                        value)
                      IN  IF s \in Range(engines) THEN h ELSE Retired(h)]
        /\ step' = Step("runtime", sub.eng, value, SourceOf(meta),
                        heap[sub.eng].isInjecting)
        /\ UNCHANGED <<options, engines, unsubscribes, subs>>

RuntimeEvent(sub, value, meta) ==
    LET s == sub.eng
        m == handleRuntime(M(s, heap[s]), value, meta, options)
    IN  /\ sub \in subs
        /\ sub.k = 0
        /\ heap' = [heap EXCEPT ![s] = m.e]
        /\ orphans' = orphans \o m.orph
        /\ out' = m.out
        /\ hist' = [hist EXCEPT ![s] =
                      LET h == NextHist(@, m,
                                        Genuine(heap[s], value, SourceOf(meta)),
                                        value)
                      IN  IF s \in Range(engines) THEN h ELSE Retired(h)]
        /\ step' = Step("runtime", s, value, SourceOf(meta),
                        heap[s].isInjecting)
        /\ UNCHANGED <<options, engines, unsubscribes, subs>>

\* A passive field's callback that keeps the first value it was given.
CompanionEventKeepsFirst(sub, val, meta) ==
    LET s == sub.eng
    IN  /\ sub \in subs
        /\ sub.k > 0
        /\ heap' = [heap EXCEPT ![s].lastKnown = @ @@ (sub.field :> val)]
        /\ out' = <<>>
        /\ hist' = [hist EXCEPT ![s].obs =
                      (sub.field :> [last |-> val,
                                     prior |-> IF sub.field \in DOMAIN @
                                               THEN @[sub.field].last
                                               ELSE Undefined]) @@ @]
        /\ step' = [Step("companion", s, val, SourceOf(meta), heap[s].isInjecting)
                      EXCEPT !.called = <<sub.field>>]
        /\ UNCHANGED <<options, engines, unsubscribes, subs, orphans>>

\* The callback of a passive keepalive field's stream.  It is given the value
\* only; `meta` is what the bus holds about the value's source, which the
\* callback does not look up.
CompanionEvent(sub, val, meta) ==
    LET s == sub.eng
    IN  /\ sub \in subs
        /\ sub.k > 0
        /\ heap' = [heap EXCEPT ![s].lastKnown = (sub.field :> val) @@ @]
        /\ out' = <<>>
        /\ hist' = [hist EXCEPT ![s].obs =
                      (sub.field :> [last |-> val,
                                     prior |-> IF sub.field \in DOMAIN @
                                               THEN @[sub.field].last
                                               ELSE Undefined]) @@ @]
        /\ step' = [Step("companion", s, val, SourceOf(meta), heap[s].isInjecting)
                      EXCEPT !.called = <<sub.field>>]
        /\ UNCHANGED <<options, engines, unsubscribes, subs, orphans>>

\* The armed timers of kind `kind` that call back into engine s and are due:
\* 0 is the one behind the engine's own handle, i > 0 is orphans[i].
Due(s, kind) ==
    {t \in {0} : (IF kind = "timeout" THEN heap[s].timeout
                  ELSE heap[s].interval) = Armed(0, (IF kind = "timeout"
                       THEN 0 ELSE heap[s].interval.period))}
    \cup {i \in 1..Len(orphans) : /\ orphans[i].eng = s
                                  /\ orphans[i].kind = kind
                                  /\ orphans[i].left = 0}

Without(q, i) == SubSeq(q, 1, i - 1) \o SubSeq(q, i + 1, Len(q))

\* The setTimeout callback of resetSilenceTimer runs; `fail` tells whether
\* app.handleMessage raises an error if called.  An error raised in a timer
\* callback leaves the callback; the host goes on running.
SilenceCallback(s, fail) ==
    \E t \in Due(s, "timeout") :
        LET e0 == IF t = 0 THEN [heap[s] EXCEPT !.timeout = SpentHandle]
                  ELSE heap[s]
            orph0 == IF t = 0 THEN orphans ELSE Without(orphans, t)
            m == startInjection([M(s, e0) EXCEPT !.fail = fail], options)
        IN  /\ orphans' = orph0 \o m.orph
            /\ heap' = Collect([heap EXCEPT ![s] = m.e], engines, subs, orphans')
            /\ out' = m.out
            /\ hist' = [x \in DOMAIN heap' |->
                          IF x = s THEN NextHist(hist[s], m, FALSE, Null)
                          ELSE hist[x]]
            /\ step' = [Step("silence", s, Undefined, NoSource,
                             heap[s].isInjecting) EXCEPT !.threw = m.threw]
            /\ UNCHANGED <<options, engines, unsubscribes, subs>>

SilenceTimerFires(s) == SilenceCallback(s, FALSE)

SilenceTimerFiresBusDown(s) == SilenceCallback(s, TRUE)

\* The setInterval callback of startInjection runs; the ticker stays armed,
\* also when the callback ends with an error.
TickCallback(s, fail) ==
    \E t \in Due(s, "interval") :
        LET m == emitDelta([M(s, heap[s]) EXCEPT !.fail = fail], options)
        IN  /\ heap' = IF t = 0
                       THEN [heap EXCEPT ![s].interval = Armed(@.period, @.period)]
                       ELSE heap
            /\ orphans' = IF t = 0 THEN orphans
                          ELSE [orphans EXCEPT ![t].left = orphans[t].period]
            /\ out' = m.out
            /\ hist' = [hist EXCEPT ![s] = NextHist(@, m, FALSE, Null)]
            /\ step' = [Step("tick", s, Undefined, NoSource,
                             heap[s].isInjecting) EXCEPT !.threw = m.threw]
            /\ UNCHANGED <<options, engines, unsubscribes, subs>>

InjectionTick(s) == TickCallback(s, FALSE)

InjectionTickBusDown(s) == TickCallback(s, TRUE)

\* The silence timer's callback under a bus that echoes synchronously.
SilenceTimerFiresEcho(s) ==
    \E t \in Due(s, "timeout") :
        LET e0 == IF t = 0 THEN [heap[s] EXCEPT !.timeout = SpentHandle]
                  ELSE heap[s]
            orph0 == IF t = 0 THEN orphans ELSE Without(orphans, t)
            m == startInjectionEcho(M(s, e0), options)
        IN  /\ orphans' = orph0 \o m.orph
            /\ heap' = Collect([heap EXCEPT ![s] = m.e], engines, subs, orphans')
            /\ out' = m.out
            /\ hist' = [x \in DOMAIN heap' |->
                          IF x = s THEN NextHist(hist[s], m, FALSE, Null)
                          ELSE hist[x]]
            /\ step' = Step("silence", s, Undefined, NoSource,
                            heap[s].isInjecting)
            /\ UNCHANGED <<options, engines, unsubscribes, subs>>

\* The ticker's callback under a bus that echoes synchronously.
InjectionTickEcho(s) ==
    \E t \in Due(s, "interval") :
        LET ticked == IF t = 0
                      THEN [heap[s] EXCEPT !.interval = Armed(@.period, @.period)]
                      ELSE heap[s]
            m == emitDeltaEcho(M(s, ticked), options)
        IN  /\ heap' = [heap EXCEPT ![s] = m.e]
            /\ orphans' = (IF t = 0 THEN orphans
                           ELSE [orphans EXCEPT ![t].left = orphans[t].period]) \o m.orph
            /\ out' = m.out
            /\ hist' = [hist EXCEPT ![s] = NextHist(@, m, FALSE, Null)]
            /\ step' = Step("tick", s, Undefined, NoSource, heap[s].isInjecting)
            /\ UNCHANGED <<options, engines, unsubscribes, subs>>

Elapse(h) == IF h.state = "armed" THEN [h EXCEPT !.left = @ - 1] ELSE h

\* One second passes: possible only when no armed timer is due.
Second ==
    /\ DOMAIN heap # {}
    /\ \A s \in DOMAIN heap :
          Due(s, "timeout") = {} /\ Due(s, "interval") = {}
    /\ heap' = [s \in DOMAIN heap |->
                  [heap[s] EXCEPT !.timeout = Elapse(@),
                                  !.interval = Elapse(@)]]
    /\ orphans' = [i \in 1..Len(orphans) |->
                     [orphans[i] EXCEPT !.left = @ - 1]]
    /\ hist' = [s \in DOMAIN hist |->
                  IF hist[s].since + 1 >= MaxAge
                  THEN [hist[s] EXCEPT !.since = MaxAge, !.pubs = 0,
                                       !.fresh = FALSE]
                  ELSE [hist[s] EXCEPT
                          !.since = @ + 1,
                          !.fresh = @ /\ hist[s].since + 1
                                           <= TimerDelay(options.startDelaySeconds)]]
    /\ out' = <<>>
    /\ step' = Step("second", 0, Undefined, NoSource, FALSE)
    /\ UNCHANGED <<options, engines, unsubscribes, subs>>

----------------------------------------------------------------------------
(* The inputs.                                                             *)

Absent == [present |-> FALSE, list |-> <<>>]

List(q) == [present |-> TRUE, list |-> q]

Options(d, i, only, fields, engs) ==
    [startDelaySeconds |-> d, transmitIntervalSeconds |-> i,
     discoverOnly |-> only, keepaliveFields |-> fields, engines |-> engs]

\* let options = {}
NoOptions == Options(Undefined, Undefined, FALSE, Absent, Absent)

PortPath == <<"propulsion", "port", "runTime">>

StarboardPath == <<"propulsion", "starboard", "runTime">>

Config(p, src) == [path |-> p, pathType |-> "string", engineSource |-> src]

\* An entry whose path is missing ("undefined") or is not a string.
ConfigNoPath(type) ==
    [path |-> <<>>, pathType |-> type, engineSource |-> Str("")]

SelfSource == Source(Str(PluginId), Undefined)

\* The source filter of the configured port engine, and the sources seen on
\* the bus: one whose label is the filter, one whose numeric src prints as
\* the filter, two others that share a label, and the plugin itself.
Filter == Str("7")

SourceByLabel == Source(Str("7"), Num(1))

SourceBySrc == Source(Str("gateway"), Num(7))

SourceB == Source(Str("B"), Num(2))

SourceB2 == Source(Str("B"), Num(3))

\* One tree with nothing under 'propulsion', one with a port engine whose
\* run time is on the bus.
Trees ==
    { NoTree,
      Tree(<<Entry("port", <<Field("runTime", Num(41), Meta(SourceBySrc))>>)>>) }

Fields == List(<<"revolutions", "temperature">>)

\* Any sequence of start() and stop() calls: an explicit configuration of
\* two engines, no configuration (auto-configuration from discovery),
\* each with and without the discovery-only flag.
LifeOptions ==
    { Options(Num(1), Num(1), only, Fields, engs) :
        only \in BOOLEAN,
        engs \in { Absent,
                   List(<<Config(PortPath, Str("")),
                          Config(StarboardPath, Str(""))>>) } }

LifeValues == { Num(41) }

LifeMetas == { NoMeta }

\* One engine at a time under a host that stops the plugin before it starts
\* it again: with and without a source filter, silence delay above and below
\* the transmit interval, every kind of source.
HostOptions ==
    { Options(Num(d[1]), Num(d[2]), FALSE, Fields, engs) :
        d \in {<<2, 1>>, <<1, 2>>},
        engs \in { Absent,
                   List(<<Config(PortPath, Filter)>>),
                   List(<<Config(StarboardPath, Str(""))>>) } }

HostValues == { Num(41), Num(42), Str("off") }

HostMetas ==
    { NoMeta, Meta(NoSource), Meta(SelfSource), Meta(SourceByLabel),
      Meta(SourceBySrc), Meta(SourceB), Meta(SourceB2) }

\* One port engine whose run time is on the bus, under a host that stops the
\* plugin before it starts it again, with every shape of keepaliveFields:
\* missing (the defaults), empty, active and passive fields mixed, a name
\* that is no field, and a field listed twice.
FieldLists ==
    { Absent,
      List(<<>>),
      Fields,
      List(<<"temperature", "oilTemperature", "fuelRate">>),
      List(<<"oilPressure", "coolant">>),
      List(<<"revolutions", "revolutions">>),
      List(<<"temperature", "temperature">>) }

FieldsOptions ==
    { Options(Num(1), Num(1), FALSE, fields,
              List(<<Config(PortPath, filter)>>)) :
        fields \in FieldLists, filter \in {Str(""), Filter} }

FieldsTrees ==
    { Tree(<<Entry("port", <<Field("runTime", Num(41), NoMeta),
                             Field("temperature", Num(70), NoMeta)>>)>>) }

\* What the bus delivers on a passive field's path: two readings, the null
\* that stands for "no data" and undefined.
CompanionValues == { Num(80), Num(90), Null, Undefined }

\* Who the bus says a passive field's value comes from: nobody, the plugin
\* itself, the source the filter names, another source.
CompanionMetas == { NoMeta, Meta(SelfSource), Meta(SourceByLabel), Meta(SourceB) }

\* Options saved without a silence delay: start() is handed what is stored,
\* the defaults of the schema are not filled in.
DefaultsOptions ==
    { Options(Undefined, Num(i), FALSE, Fields, engs) :
        i \in {1, 2},
        engs \in { Absent, List(<<Config(PortPath, Filter)>>) } }

\* Two engines side by side: the port engine without a source filter, the
\* starboard engine with one; a bus that knows the run time of both, and a
\* bus that knows the port engine's only.
PairOptions ==
    { Options(Num(d), Num(i), FALSE, Fields,
              List(<<Config(PortPath, Str("")),
                     Config(StarboardPath, Filter)>>)) :
        d \in {2}, i \in {1} }

PairTrees ==
    { Tree(<<Entry("port", <<Field("runTime", Num(41), NoMeta)>>),
             Entry("starboard", <<Field("runTime", Num(7), NoMeta)>>)>>),
      Tree(<<Entry("port", <<Field("runTime", Num(41), NoMeta)>>)>>) }

PairValues == { Num(42) }

PairMetas == { NoMeta, Meta(SourceB) }

PairCompanionValues == { Num(80) }

\* Configurations for start(): none, an empty list, and lists that mix
\* valid entries with a two-segment path, an empty path, a missing path, a
\* path outside 'propulsion', a path with an empty middle segment, a path of
\* four segments, a path that is a number, an engine the bus does not know,
\* and a list that names the same path twice.
MainPath == <<"propulsion", "main", "runTime">>

ConfigLists ==
    { Absent,
      List(<<>>),
      List(<<Config(PortPath, Str("")),
             Config(<<"propulsion", "port">>, Str("")),
             Config(StarboardPath, Filter)>>),
      List(<<Config(<<>>, Str("")), Config(PortPath, Filter)>>),
      List(<<ConfigNoPath("undefined"),
             Config(<<"navigation", "port", "runTime">>, Str("")),
             Config(<<"propulsion", "", "runTime">>, Str("")),
             Config(<<"propulsion", "port", "fuel", "runTime">>, Str(""))>>),
      List(<<Config(PortPath, Str("")),
             ConfigNoPath("number"),
             Config(StarboardPath, Str(""))>>),
      List(<<Config(MainPath, Str(""))>>),
      List(<<Config(PortPath, Str("")), Config(PortPath, Filter)>>) }

ConfigOptions ==
    { Options(Num(1), Num(1), only, Fields, engs) :
        only \in BOOLEAN, engs \in ConfigLists }

Engine(key) == Entry(key, <<Field("runTime", Num(41), NoMeta)>>)

\* What the bus holds: nothing; a port engine with run time, revolutions and
\* a total that is no run time, next to a starboard engine that reports run
\* hours; seven engines; one port engine that reports both run time and run
\* hours; null and a string in place of the subtree; a subtree with a null
\* and a number among its entries.
ConfigTrees ==
    { NoTree,
      Tree(<<Entry("port", <<Field("runTime", Num(41), Meta(SourceBySrc)),
                             Field("revolutions", Num(0), NoMeta),
                             Field("runTimeTotal", Num(9), NoMeta)>>),
             Entry("starboard", <<Field("RunHours", Num(7), NoMeta)>>)>>),
      Tree(<<Engine("e1"), Engine("e2"), Engine("e3"), Engine("e4"),
             Engine("e5"), Engine("e6"), Engine("e7")>>),
      Tree(<<Entry("port", <<Field("runTime", Num(41), NoMeta),
                             Field("runHours", Num(1), NoMeta)>>)>>),
      NotATree("null"),
      NotATree("string"),
      Tree(<<NotAnEntry("flag", "null"),
             Entry("port", <<Field("RUNTIME", Num(41),
                                   Meta(Source(Undefined, Num(5)))),
                             Field("Revolutions", Num(0), Meta(SourceB))>>),
             NotAnEntry("count", "number"),
             Entry("gen", <<Field("runHours", Num(3), Meta(SourceB))>>)>>) }

----------------------------------------------------------------------------

Init ==
    /\ options = NoOptions
    /\ engines = <<>>
    /\ unsubscribes = <<>>
    /\ heap = <<>>
    /\ subs = {}
    /\ orphans = <<>>
    /\ out = <<>>
    /\ hist = <<>>
    /\ step = [op |-> "init", eng |-> 0, val |-> Undefined, src |-> NoSource,
               wasInj |-> FALSE, life |-> "init", before |-> "",
               stopped |-> <<>>, called |-> <<>>, bus |-> <<>>,
               threw |-> FALSE, tree |-> NoTree, monitored |-> <<>>,
               wasArmed |-> FALSE, wasDue |-> FALSE]

Timers ==
    \/ \E s \in DOMAIN heap : SilenceTimerFires(s)
    \/ \E s \in DOMAIN heap : InjectionTick(s)
    \/ Second

Next ==
    \/ \E o \in LifeOptions, t \in Trees : Start(o, t)
    \/ Stop
    \/ \E u \in subs, v \in LifeValues, m \in LifeMetas : RuntimeEvent(u, v, m)
    \/ Timers

Spec == Init /\ [][Next]_vars

NextHost ==
    \/ \E o \in HostOptions, t \in Trees : DOMAIN heap = {} /\ Start(o, t)
    \/ Stop
    \/ \E u \in subs, v \in HostValues, m \in HostMetas : RuntimeEvent(u, v, m)
    \/ Timers

SpecHost == Init /\ [][NextHost]_vars

\* The host of SpecHost with a bus whose publish call may raise an error on
\* any emission.
NextFail ==
    \/ \E o \in HostOptions, t \in Trees : DOMAIN heap = {} /\ Start(o, t)
    \/ Stop
    \/ \E u \in subs, v \in LifeValues, m \in LifeMetas : RuntimeEvent(u, v, m)
    \/ Timers
    \/ \E s \in DOMAIN heap : SilenceTimerFiresBusDown(s)
    \/ \E s \in DOMAIN heap : InjectionTickBusDown(s)

SpecFail == Init /\ [][NextFail]_vars

\* The host of SpecHost with options that have no startDelaySeconds.
NextDefaults ==
    \/ \E o \in DefaultsOptions, t \in Trees : DOMAIN heap = {} /\ Start(o, t)
    \/ Stop
    \/ \E u \in subs, v \in HostValues, m \in HostMetas : RuntimeEvent(u, v, m)
    \/ Timers

SpecDefaults == Init /\ [][NextDefaults]_vars

\* The host of SpecHost with a bus that hands every delta the plugin
\* publishes back to the plugin's runtime subscription inside the publish
\* call, with no source in the metadata; the engine itself reports under the
\* label the filter names.
NextEcho ==
    \/ \E o \in HostOptions, t \in Trees : DOMAIN heap = {} /\ Start(o, t)
    \/ Stop
    \/ \E u \in subs, v \in LifeValues : RuntimeEvent(u, v, Meta(SourceByLabel))
    \/ \E s \in DOMAIN heap : SilenceTimerFiresEcho(s)
    \/ \E s \in DOMAIN heap : InjectionTickEcho(s)
    \/ Second

SpecEcho == Init /\ [][NextEcho]_vars

\* Two channels under the host of SpecHost: events on the primary and
\* companion paths of either, their timers, and a publish call that may
\* raise an error.
NextPair ==
    \/ \E o \in PairOptions, t \in PairTrees : DOMAIN heap = {} /\ Start(o, t)
    \/ Stop
    \/ \E u \in subs, v \in PairValues, m \in PairMetas : RuntimeEvent(u, v, m)
    \/ \E u \in subs, v \in PairCompanionValues, m \in LifeMetas :
          CompanionEvent(u, v, m)
    \/ Timers
    \/ \E s \in DOMAIN heap : SilenceTimerFiresBusDown(s)
    \/ \E s \in DOMAIN heap : InjectionTickBusDown(s)

SpecPair == Init /\ [][NextPair]_vars

\* start() on a stopped plugin with every configuration and bus content,
\* the timers of the channels it creates, and stop().
NextConfig ==
    \/ \E o \in ConfigOptions, t \in ConfigTrees :
          DOMAIN heap = {} /\ start(o, t)
    \/ Stop
    \/ Timers

SpecConfig == Init /\ [][NextConfig]_vars

NextFields ==
    \/ \E o \in FieldsOptions, t \in FieldsTrees :
          DOMAIN heap = {} /\ Start(o, t)
    \/ Stop
    \/ \E u \in subs, v \in LifeValues, m \in LifeMetas : RuntimeEvent(u, v, m)
    \/ \E u \in subs, v \in CompanionValues, m \in CompanionMetas :
          CompanionEvent(u, v, m)
    \/ Timers

SpecFields == Init /\ [][NextFields]_vars

----------------------------------------------------------------------------
(* Properties.                                                             *)

Running == Range(engines)

D == TimerDelay(options.startDelaySeconds)

I == TimerDelay(options.transmitIntervalSeconds)

PrimaryOf(d) == d.delta.values[1]

\* C1: Silence triggers injection.  For a running channel whose last genuine
\* value is V and whose last genuine update (or creation with a restored
\* value) was `since` seconds ago: before D seconds have passed nothing has
\* been published and the silence timer is due at D; from D on the channel
\* is injecting, one delta was published at D and one every I seconds after
\* it (a timer that is due at this very instant may not have run yet), and
\* every delta it publishes carries V.
C1_SilenceTriggersInjection ==
    \A s \in Running :
        LET e == heap[s]
            h == hist[s]
            a == h.since
            n == (a - D) \div I
        IN  (h.genuine # Null /\ a < MaxAge) =>
              /\ a < D => /\ h.pubs = 0
                          /\ ~e.isInjecting
                          /\ e.timeout = Armed(D - a, 0)
              /\ (a >= D /\ e.timeout.state = "armed") =>
                          /\ a = D
                          /\ e.timeout.left = 0
                          /\ h.pubs = 0
              /\ (a >= D /\ e.timeout.state # "armed") =>
                          /\ e.isInjecting
                          /\ e.interval.state = "armed"
                          /\ IF e.interval.left = 0
                             THEN (a - D) % I = 0 /\ h.pubs = n
                             ELSE /\ h.pubs = n + 1
                                  /\ e.interval.left = I - ((a - D) % I)
              /\ \A k \in 1..Len(out) :
                    out[k].eng = s =>
                       /\ PrimaryOf(out[k]).path = e.config.path
                       /\ PrimaryOf(out[k]).value = h.genuine

\* C1 witness: a running channel that published at its silence deadline and
\* again one transmit interval later.
C1_Witness ==
    \E s \in Running :
        /\ heap[s].isInjecting
        /\ hist[s].since < MaxAge
        /\ hist[s].since = D + I
        /\ hist[s].pubs = 2
        /\ step.op = "tick"

\* The engine a runtime step was about, and whether the spec's arbiter
\* takes the event of that step as a genuine update.
IsRuntime(st, s) == st.op = "runtime" /\ st.eng = s

TimersOf(hp, orph, s) ==
    <<hp[s].timeout, hp[s].interval,
      SelectSeq(orph, LAMBDA t : t.eng = s)>>

\* C2: Resumption cancels injection immediately.  A step that delivers a
\* genuine update to a channel that is injecting leaves the injection ticker
\* cancelled (so it can fire no more), the channel not injecting, nothing
\* published, and a silence timer armed for the full delay D.
C2_ResumptionCancelsInjection ==
    [][\A s \in DOMAIN heap :
         (/\ IsRuntime(step', s)
          /\ heap[s].isInjecting
          /\ Genuine(heap[s], step'.val, step'.src))
         => /\ heap'[s].interval.state # "armed"
            /\ \A k \in 1..Len(orphans') : orphans'[k].eng # s
            /\ ~heap'[s].isInjecting
            /\ heap'[s].timeout = Armed(D, 0)
            /\ heap'[s].lastValue = step'.val
            /\ out' = <<>>]_vars

\* C2 witness: a genuine update has just reached a channel that was
\* injecting; the channel now waits out a fresh silence window.
C2_Witness ==
    \E s \in Running :
        /\ IsRuntime(step, s)
        /\ step.wasInj
        /\ Genuine(heap[s], step.val, step.src)
        /\ ~heap[s].isInjecting
        /\ heap[s].timeout = Armed(D, 0)

SelfAuthored(st) ==
    /\ st.src.present
    /\ st.src.label = Str(PluginId)
    /\ TypeOf(st.val) = "number"

\* C3: No feedback loop.  A numeric primary-path event whose source label is
\* the plugin's own id changes neither lastValue, nor the injecting flag,
\* nor any timer of the channel (none armed, cancelled or restarted), and
\* publishes nothing, whatever state the channel is in.
C3_NoFeedbackLoop ==
    [][\A s \in DOMAIN heap :
         (IsRuntime(step', s) /\ SelfAuthored(step'))
         => /\ heap'[s].lastValue = heap[s].lastValue
            /\ heap'[s].isInjecting = heap[s].isInjecting
            /\ TimersOf(heap', orphans', s) = TimersOf(heap, orphans, s)
            /\ out' = <<>>]_vars

\* C3 witness: a self-labelled event carrying exactly lastValue has reached a
\* channel that is injecting, and the channel is injecting still.
C3_Witness ==
    \E s \in Running :
        /\ IsRuntime(step, s)
        /\ SelfAuthored(step)
        /\ step.val = heap[s].lastValue
        /\ heap[s].isInjecting
        /\ heap[s].interval.state = "armed"

\* C4: No value invention.  A channel that is injecting holds a value, and a
\* channel with neither a restored value nor any genuine update is not
\* injecting, has no ticker and has published nothing, however long it
\* has existed; no delta carries an absent primary value.
C4_NoValueInvention ==
    /\ \A s \in DOMAIN heap :
          /\ heap[s].isInjecting => heap[s].lastValue \notin {Null, Undefined}
          /\ hist[s].genuine = Null =>
                /\ ~heap[s].isInjecting
                /\ heap[s].interval.state # "armed"
                /\ hist[s].pubs = 0
                /\ \A k \in 1..Len(out) : out[k].eng # s
    /\ \A k \in 1..Len(out) :
          /\ TypeOf(PrimaryOf(out[k]).value) = "number"
          /\ hist[out[k].eng].genuine # Null

\* C4 witness: a channel without any value has seen rejected events and has
\* stayed silent for as long as the history counts.
C4_Witness ==
    \E s \in Running :
        /\ hist[s].genuine = Null
        /\ hist[s].since = MaxAge
        /\ heap[s].seenSources # {}
        /\ heap[s].lastValue = Null

\* C5: Verbatim replay.  The primary value of every published delta is the
\* value of the channel's most recent genuine update (the restored value if
\* there was none), and lastValue is that value before and after every
\* publication.
C5_VerbatimReplay ==
    /\ \A s \in DOMAIN heap : heap[s].lastValue = hist[s].genuine
    /\ \A k \in 1..Len(out) :
          /\ PrimaryOf(out[k]).path = heap[out[k].eng].config.path
          /\ PrimaryOf(out[k]).value = hist[out[k].eng].genuine

\* C5 witness: the second delta in a row that replays the value of a genuine
\* update, not the restored one.
C5_Witness ==
    \E s \in Running :
        /\ step.op = "tick" /\ step.eng = s
        /\ Len(out) = 1
        /\ hist[s].pubs >= 2
        /\ hist[s].genuine = Num(42)
        /\ PrimaryOf(out[1]).value = Num(42)

\* The source key recordSource files a source under.
SourceKey(src) == IF Truthy(src.label) THEN src.label ELSE src.src

Unauthorized(e, st) ==
    /\ TypeOf(st.val) = "number"
    /\ st.src.present
    /\ Truthy(e.config.engineSource)
    /\ st.src.label # e.config.engineSource
    /\ JsString(st.src.src) # JsString(e.config.engineSource)

NoTimerArmed == \A s \in DOMAIN heap : ~HasArmed(heap, orphans, s)

\* C6: No publication after stop.  From the return of stop() until the next
\* start(), no silence timer and no injection ticker of any channel this
\* plugin ever created is armed, and no delta is published.
C6_NoPublicationAfterStop ==
    step.life = "stop" => NoTimerArmed /\ out = <<>>

\* C7: stop() cancels and releases everything it owns.  After a stop() step
\* every channel that was in the collection has both handles cancelled and
\* isInjecting false, no timer calls back into it and the object is gone;
\* every entry of the subscription list was called exactly once and is no
\* longer registered; both lists are empty.
C7_StopReleasesEverything ==
    [][step'.op = "stop" =>
         /\ Len(step'.stopped) = Len(engines)
         /\ \A i \in 1..Len(step'.stopped) :
               /\ step'.stopped[i].timeout.state # "armed"
               /\ step'.stopped[i].interval.state # "armed"
               /\ ~step'.stopped[i].isInjecting
         /\ \A s \in Range(engines) :
               /\ \A k \in 1..Len(orphans') : orphans'[k].eng # s
               /\ s \notin DOMAIN heap'
         /\ Len(step'.called) = Len(unsubscribes)
         /\ \A u \in Range(unsubscribes) :
               /\ Cardinality({k \in 1..Len(step'.called) :
                                  step'.called[k].sub = u}) = 1
               /\ u \notin subs'
         /\ engines' = <<>>
         /\ unsubscribes' = <<>>]_vars

\* C7 witness: stop() has just ended two channels, one of them injecting,
\* and released their four subscriptions (two primary, two temperature).
C7_Witness ==
    /\ step.op = "stop"
    /\ step.wasInj
    /\ Len(step.stopped) = 2
    /\ Len(step.called) = 4
    /\ \E k \in 1..4 : step.called[k].sub.k > 0

\* C8: stop() is idempotent.  A stop() with no channel in the collection
\* changes nothing and calls no unsubscribe function, and no stop() ever
\* calls an unsubscribe function that was called before.
C8_StopIdempotent ==
    [][step'.op = "stop" =>
         /\ \A k \in 1..Len(step'.called) : step'.called[k].active
         /\ engines = <<>> =>
               /\ step'.called = <<>>
               /\ step'.stopped = <<>>
               /\ out' = <<>>
               /\ UNCHANGED <<options, engines, unsubscribes, heap, subs,
                              orphans, hist>>]_vars

\* C8 witness: a stop() right after a stop() that had channels to end.
C8_Witness ==
    /\ step.op = "stop"
    /\ step.before = "stop"
    /\ step.called = <<>>
    /\ engines = <<>>

\* C9: Discovery-only produces zero side effects.  From a start() with the
\* discovery-only flag until the next start(): no channel in the collection,
\* no subscription in the list, no timer armed and no delta published.
C9_DiscoveryOnlyNoSideEffects ==
    step.life = "discover" =>
        /\ engines = <<>>
        /\ unsubscribes = <<>>
        /\ NoTimerArmed
        /\ out = <<>>

\* C13: Cold start.  Right after a start() every created channel whose path
\* held a number on the bus has that number as lastValue and its silence
\* timer armed for the full delay D, with no event delivered yet.  While no
\* genuine update has arrived such a channel waits exactly D seconds; when
\* the timer has run it is injecting with its ticker armed and has published
\* one delta, and every delta it publishes carries the restored value.
C13_ColdStart ==
    /\ step.op = "start" =>
          \A i \in 1..Len(engines) :
             TypeOf(step.bus[i]) = "number" =>
                /\ heap[engines[i]].lastValue = step.bus[i]
                /\ hist[engines[i]].genuine = step.bus[i]
                /\ hist[engines[i]].fresh
                /\ heap[engines[i]].timeout = Armed(D, 0)
    /\ \A s \in Running :
          LET e == heap[s]
              h == hist[s]
          IN  h.fresh =>
                /\ TypeOf(h.genuine) = "number"
                /\ e.lastValue = h.genuine
                /\ h.since <= D
                /\ h.since < D => /\ e.timeout = Armed(D - h.since, 0)
                                  /\ ~e.isInjecting
                                  /\ h.pubs = 0
                /\ (h.since = D /\ e.timeout.state = "armed") =>
                       e.timeout.left = 0 /\ ~e.isInjecting /\ h.pubs = 0
                /\ (h.since = D /\ e.timeout.state # "armed") =>
                       /\ e.isInjecting
                       /\ e.interval.state = "armed"
                       /\ h.pubs >= 1
                /\ \A k \in 1..Len(out) :
                      out[k].eng = s => PrimaryOf(out[k]).value = h.genuine

\* C13 witness: a channel that never received an event has started injecting
\* its restored value when its cold-start silence timer ran out.
C13_Witness ==
    \E s \in Running :
        /\ step.op = "silence" /\ step.eng = s
        /\ hist[s].fresh
        /\ heap[s].seenSources = {}
        /\ hist[s].since = D
        /\ heap[s].isInjecting
        /\ Len(out) = 1
        /\ PrimaryOf(out[1]).value = Num(41)

SilenceActive(s) ==
    \/ heap[s].timeout.state = "armed"
    \/ \E k \in 1..Len(orphans) :
          orphans[k].eng = s /\ orphans[k].kind = "timeout"

TickerActive(s) ==
    \/ heap[s].interval.state = "armed"
    \/ \E k \in 1..Len(orphans) :
          orphans[k].eng = s /\ orphans[k].kind = "interval"

C20_TypeMismatchIgnored ==
    [][\A s \in DOMAIN heap :
         (IsRuntime(step', s) /\ TypeOf(step'.val) # "number")
         => /\ heap'[s] = heap[s]
            /\ orphans' = orphans
            /\ hist'[s].since = hist[s].since
            /\ out' = <<>>]_vars

\* C20 witness: a string payload from a source not seen before has reached a
\* channel that is injecting; the channel goes on injecting and has not
\* recorded the source.
C20_Witness ==
    \E s \in Running :
        /\ IsRuntime(step, s)
        /\ TypeOf(step.val) = "string"
        /\ step.src.present
        /\ \A p \in heap[s].seenSources : p.source # step.src
        /\ heap[s].isInjecting
        /\ heap[s].interval.state = "armed"

ActiveFields == {"revolutions", "oilPressure", "fuelRate"}

PassiveFields == {"temperature", "oilTemperature"}

\* The companion path of a field: the engine's base path and the field's
\* suffix.
CompanionPath(e, f) ==
    e.basePath \o (IF f = "fuelRate" THEN <<"fuel", "rate">> ELSE <<f>>)

Configured == Range(KeepaliveFields(options))

\* The entries of a published delta for one path.
EntriesAt(d, path) ==
    SelectSeq(d.delta.values, LAMBDA v : v.path = path)

\* C11: Active companion fields are always zero during injection.  Every
\* delta a channel publishes carries, for each configured active field,
\* exactly one entry for that field's companion path, and its value is 0.
C11_ActiveFieldsZero ==
    \A k \in 1..Len(out) :
       \A f \in Configured \cap ActiveFields :
          LET es == EntriesAt(out[k], CompanionPath(heap[out[k].eng], f))
          IN  Len(es) = 1 /\ es[1].value = Num(0)

\* The last value the callback of passive field f of channel s was given.
Observed(s, f) ==
    IF f \in DOMAIN hist[s].obs THEN hist[s].obs[f].last ELSE Undefined

\* C12 as stated: a delta carries, for each configured passive field that
\* has been observed, the most recent observation X, whatever X is.
C12_PassiveReplayAnyObservation ==
    \A k \in 1..Len(out) :
       \A f \in Configured \cap PassiveFields :
          LET s == out[k].eng
              es == EntriesAt(out[k], CompanionPath(heap[s], f))
          IN  f \in DOMAIN hist[s].obs =>
                 /\ Len(es) >= 1
                 /\ \A i \in 1..Len(es) : es[i].value = Observed(s, f)

\* C12 (amended): Passive companion fields replay the last observation.
\* For each configured passive field whose most recent observation X is a
\* value (not null, not undefined), every delta the channel publishes
\* carries X, and nothing else, for the field's path; so a newer observation
\* Y replaces X in the deltas after it.  A field never observed, or last
\* observed as null or undefined, has no entry.
C12_PassiveReplay ==
    \A k \in 1..Len(out) :
       \A f \in Configured \cap PassiveFields :
          LET s == out[k].eng
              es == EntriesAt(out[k], CompanionPath(heap[s], f))
              X == Observed(s, f)
          IN  IF X \in {Null, Undefined} THEN es = <<>>
              ELSE /\ Len(es) >= 1
                   /\ \A i \in 1..Len(es) : es[i].value = X

\* C12 witness: a channel that has published before publishes a delta that
\* carries the reading 90, which replaced the earlier reading 80.
C12_Witness ==
    \E s \in Running :
        /\ step.op = "tick" /\ step.eng = s
        /\ hist[s].pubs >= 2
        /\ "temperature" \in DOMAIN hist[s].obs
        /\ hist[s].obs["temperature"] = [last |-> Num(90), prior |-> Num(80)]
        /\ Len(out) = 1
        /\ EntriesAt(out[1], CompanionPath(heap[s], "temperature"))
             = <<[path |-> <<"propulsion", "port", "temperature">>,
                  value |-> Num(90)]>>

\* C15: Restart destroys the old channels.  A start() made while channels of
\* an earlier start() are in the collection leaves none of their timers
\* armed and none of their subscriptions registered.
C15_RestartDestroysOldChannels ==
    [][step'.op = "start" =>
         /\ \A s \in Range(engines) :
               s \in DOMAIN heap' => ~HasArmed(heap', orphans', s)
         /\ \A u \in Range(unsubscribes) : u \notin subs']_vars

\* C16: Publish failure is retried on the next tick.  When the publish call
\* raises an error in an emission of a channel (the first one, made by the
\* silence timer's callback, or a later one, made by the ticker) the channel
\* is injecting afterwards and its ticker is armed.
C16_PublishFailureRetried ==
    [][\A s \in DOMAIN heap :
         (step'.threw /\ step'.eng = s /\ step'.op \in {"silence", "tick"})
         => /\ s \in DOMAIN heap'
            /\ heap'[s].isInjecting
            /\ heap'[s].interval.state = "armed"]_vars

\* The explicit configuration given to start().
Explicit(opts) == IF opts.engines.present THEN opts.engines.list ELSE <<>>

\* An entry whose path is a string of at least three dot-separated segments
\* with first segment 'propulsion'.
ValidEntry(c) ==
    /\ c.pathType = "string"
    /\ Len(c.path) >= 3
    /\ c.path[1] = "propulsion"

\* The configurations of the channels in the collection, in order.
Channels(engs, hp) == [i \in 1..Len(engs) |-> hp[engs[i]].config]

\* C17: Invalid configuration entries are skipped, not fatal.  After a
\* start() that is given a non-empty list of entries and is not discovery
\* only, the channels of the collection are exactly the valid entries of the
\* list, in order; the subscriptions and timers are those of these channels
\* and no others.
C17_InvalidEntriesSkipped ==
    [][(/\ step'.op = "start"
        /\ ~options'.discoverOnly
        /\ Len(Explicit(options')) > 0)
       => /\ Channels(engines', heap')
               = SelectSeq(Explicit(options'), ValidEntry)
          /\ \A u \in subs' : u.eng \in Range(engines')
          /\ \A s \in DOMAIN heap' : s \in Range(engines')
          /\ \A s \in Range(engines') :
                \E u \in subs' : u.eng = s /\ u.k = 0]_vars

MaxItems == 6

\* C19: Bounded channel count.  After every start() the collection holds at
\* most 6 channels.
C19_BoundedChannelCount ==
    [][step'.op = "start" => Len(engines') <= MaxItems]_vars

\* The run-time paths of a tree: one for each field of each entry whose
\* name is 'runtime' or 'runhours' when case is ignored.
RunPaths(tree) ==
    IF ~tree.present THEN {}
    ELSE { <<"propulsion", tree.entries[p[1]].key,
             tree.entries[p[1]].fields[p[2]].field>> :
             p \in { q \in (1..Len(tree.entries)) \X (1..3) :
                       /\ q[2] <= Len(tree.entries[q[1]].fields)
                       /\ tree.entries[q[1]].fields[q[2]].field
                            \in {"runTime", "RunHours", "runHours",
                                 "RUNTIME"} } }

\* C18: Configuration merge.  The entries a start() goes through are the
\* explicit configuration when it is not empty, and otherwise one entry for
\* each run-time path of the bus, with no source filter; unless start() is
\* discovery only or ends in an error, the channels it creates are the
\* valid ones among exactly these entries.
C18_ConfigurationMerge ==
    [][step'.op = "start" =>
         LET explicit == Explicit(options')
             monitored == step'.monitored
         IN  /\ Len(explicit) > 0 => monitored = explicit
             /\ Len(explicit) = 0 =>
                   /\ Len(monitored) = Cardinality(RunPaths(step'.tree))
                   /\ { c.path : c \in Range(monitored) } = RunPaths(step'.tree)
                   /\ \A c \in Range(monitored) :
                         c.pathType = "string" /\ ~Truthy(c.engineSource)
             /\ options'.discoverOnly => engines' = <<>>
             /\ (~options'.discoverOnly /\ ~step'.threw) =>
                   Channels(engines', heap') = SelectSeq(monitored, ValidEntry)
             /\ \A c \in Range(Channels(engines', heap')) :
                   c \in Range(monitored)]_vars

\* C18 witness: start() was given one engine the bus does not know while
\* the bus held two run-time paths; that engine alone is monitored.
C18_Witness ==
    /\ step.op = "start"
    /\ Explicit(options) = <<Config(MainPath, Str(""))>>
    /\ Cardinality(RunPaths(step.tree)) = 2
    /\ Len(engines) = 1
    /\ heap[engines[1]].config.path = MainPath

\* C21: Absent source metadata is accepted.  A numeric primary-path event
\* for which the metadata lookup gives nothing, or metadata without a
\* source, is taken as a genuine update on every channel, with or without a
\* source filter: lastValue is the event's value, the channel is not
\* injecting and has no ticker, and the silence timer is armed for D.
C21_AbsentSourceAccepted ==
    [][\A s \in DOMAIN heap :
         (/\ IsRuntime(step', s)
          /\ TypeOf(step'.val) = "number"
          /\ ~step'.src.present)
         => /\ heap'[s].lastValue = step'.val
            /\ ~heap'[s].isInjecting
            /\ heap'[s].interval.state # "armed"
            /\ \A k \in 1..Len(orphans') : orphans'[k].eng # s
            /\ heap'[s].timeout = Armed(D, 0)
            /\ heap'[s].seenSources = heap[s].seenSources
            /\ out' = <<>>]_vars

\* C21 witness: an event without source metadata has brought a new value to
\* a channel that has a source filter and was injecting.
C21_Witness ==
    \E s \in Running :
        /\ IsRuntime(step, s)
        /\ ~step.src.present
        /\ step.wasInj
        /\ Truthy(heap[s].config.engineSource)
        /\ step.val = Num(42)
        /\ heap[s].lastValue = Num(42)
        /\ heap[s].timeout = Armed(D, 0)

\* The engine object and timers of channel s after handleRuntime is given
\* the primary value of delta d under the source label d declares.
Redelivered(s, d) ==
    handleRuntime(M(s, heap[s]), PrimaryOf(d).value,
                  Meta(Source(Str(d.delta.source.label), Undefined)), options)

\* C22: Every published delta declares the plugin's id as its source label
\* and is handed to the bus under that id, and this is a label the inbound
\* handler rejects: given the delta's own primary value under the declared
\* label, the handler changes neither lastValue, nor the injecting flag,
\* nor a timer.
C22_OwnLabelDeclared ==
    \A k \in 1..Len(out) :
        LET d == out[k]
            s == d.eng
            r == Redelivered(s, d)
        IN  /\ d.delta.source.label = PluginId
            /\ d.id = PluginId
            /\ s \in DOMAIN heap
            /\ r.e.lastValue = heap[s].lastValue
            /\ r.e.isInjecting = heap[s].isInjecting
            /\ r.e.timeout = heap[s].timeout
            /\ r.e.interval = heap[s].interval
            /\ r.orph = <<>>
            /\ r.out = <<>>

\* C22 witness: a tick of a channel without a source filter has published a
\* delta under the plugin's id.
C22_Witness ==
    /\ step.op = "tick"
    /\ Len(out) = 1
    /\ out[1].delta.source.label = PluginId
    /\ heap[out[1].eng].isInjecting
    /\ ~Truthy(heap[out[1].eng].config.engineSource)
    /\ hist[out[1].eng].pubs >= 2

\* What channel s has stored for passive field f.
Stored(s, f) ==
    IF f \in DOMAIN heap[s].lastKnown THEN heap[s].lastKnown[f] ELSE Undefined

\* C23: No absent values are published.  No entry of a published delta, for
\* the primary path or a companion path, has the value null or undefined,
\* and a configured passive field for which nothing, null or undefined is
\* stored has no entry at all.
C23_NoAbsentValues ==
    \A k \in 1..Len(out) :
       LET d == out[k]
           s == d.eng
       IN  /\ \A i \in 1..Len(d.delta.values) :
                d.delta.values[i].value \notin {Null, Undefined}
           /\ \A f \in Configured \cap PassiveFields :
                Stored(s, f) \in {Null, Undefined}
                => EntriesAt(d, CompanionPath(heap[s], f)) = <<>>

\* C23 witness: a delta is published while the temperature, once read as
\* 80, is stored as null; the delta has the primary entry and no other.
C23_Witness ==
    \E s \in Running :
        /\ step.op = "tick" /\ step.eng = s
        /\ "temperature" \in Configured
        /\ "temperature" \in DOMAIN hist[s].obs
        /\ hist[s].obs["temperature"] = [last |-> Null, prior |-> Num(80)]
        /\ Stored(s, "temperature") = Null
        /\ Len(out) = 1
        /\ EntriesAt(out[1], CompanionPath(heap[s], "temperature")) = <<>>
        /\ PrimaryOf(out[1]).value = Num(41)

C25_SelfAuthoredIgnoredEntirely ==
    [][\A s \in DOMAIN heap :
         (IsRuntime(step', s) /\ SelfAuthored(step'))
         => /\ heap'[s] = heap[s]
            /\ TimersOf(heap', orphans', s) = TimersOf(heap, orphans, s)]_vars

\* The silence timers of channel s that are still to fire.
SilenceTimers(s) ==
    (IF heap[s].timeout.state = "armed" THEN 1 ELSE 0)
    + Len(SelectSeq(orphans, LAMBDA t : t.eng = s /\ t.kind = "timeout"))

\* C27: No duplicate silence timers.  A channel never has more than one
\* silence timer that is still to fire, counting timers it holds no handle
\* to, and right after a silence timer has fired it has none: one silence
\* period fires once.
C27_NoDuplicateSilenceTimers ==
    /\ \A s \in DOMAIN heap : SilenceTimers(s) <= 1
    /\ (step.op = "silence" /\ step.eng \in DOMAIN heap)
       => SilenceTimers(step.eng) = 0

\* C27 witness: a genuine update has reached a channel whose silence timer
\* was pending; exactly one silence timer, armed for D, is pending now.
C27_Witness ==
    \E s \in Running :
        /\ IsRuntime(step, s)
        /\ step.wasArmed
        /\ Genuine(heap[s], step.val, step.src)
        /\ SilenceTimers(s) = 1
        /\ heap[s].timeout = Armed(D, 0)
        /\ D = 2

\* The reference decision for a source that is present and not the plugin.
Authority(e, src) ==
    \/ ~Truthy(e.config.engineSource)
    \/ src.label = e.config.engineSource
    \/ JsString(src.src) = JsString(e.config.engineSource)

\* C28: Source arbitration matches the reference.  A numeric primary-path
\* event with a source that is not the plugin itself is accepted (lastValue
\* takes the value, the channel stops injecting, the silence timer is armed
\* for D) exactly when no filter is configured, or the source's label is
\* the filter, or its src printed as a string is the filter printed as a
\* string; otherwise lastValue, the injecting flag and the timers stay.
C28_SourceArbitration ==
    [][\A s \in DOMAIN heap :
         (/\ IsRuntime(step', s)
          /\ TypeOf(step'.val) = "number"
          /\ step'.src.present
          /\ step'.src.label # Str(PluginId))
         => IF Authority(heap[s], step'.src)
            THEN /\ heap'[s].lastValue = step'.val
                 /\ ~heap'[s].isInjecting
                 /\ heap'[s].interval.state # "armed"
                 /\ heap'[s].timeout = Armed(D, 0)
            ELSE /\ heap'[s].lastValue = heap[s].lastValue
                 /\ heap'[s].isInjecting = heap[s].isInjecting
                 /\ TimersOf(heap', orphans', s)
                      = TimersOf(heap, orphans, s)]_vars

\* C28 witness: on a channel with filter "7" that was injecting, a source
\* labelled otherwise whose src is the number 7 has delivered a new value,
\* and it was taken.
C28_Witness ==
    \E s \in Running :
        /\ IsRuntime(step, s)
        /\ step.src = SourceBySrc
        /\ step.wasInj
        /\ heap[s].config.engineSource = Filter
        /\ step.val = Num(42)
        /\ heap[s].lastValue = Num(42)
        /\ heap[s].timeout = Armed(D, 0)

\* C26: Passive companion memory is updated only by genuine observations.
\* An observation on a companion path whose source is the plugin itself, or
\* a source the channel's filter does not admit, leaves what the channel has
\* stored for its passive fields as it was.
C26_PassiveMemoryGenuineOnly ==
    [][\A s \in DOMAIN heap :
         (/\ step'.op = "companion" /\ step'.eng = s
          /\ step'.src.present
          /\ \/ step'.src.label = Str(PluginId)
             \/ ~Authority(heap[s], step'.src))
         => heap'[s].lastKnown = heap[s].lastKnown]_vars

\* C29: Channels are independent.  A primary or companion event, a silence
\* timer fire, a tick or a publish failure of one channel leaves every other
\* channel's engine object (lastValue, passive memory, known sources,
\* injecting flag) and timers, with the seconds they have left, as they
\* were, and publishes nothing for another channel.
C29_ChannelsIndependent ==
    [][\A s \in DOMAIN heap :
         (/\ step'.op \in {"runtime", "companion", "silence", "tick"}
          /\ step'.eng = s)
         => \A x \in (DOMAIN heap \cap DOMAIN heap') \ {s} :
               /\ heap'[x] = heap[x]
               /\ TimersOf(heap', orphans', x) = TimersOf(heap, orphans, x)
               /\ Published(out', x) = 0]_vars

\* C29 witness: the first emission of one channel has failed while the
\* other channel, which has taken a genuine update and a temperature
\* reading, waits with its silence timer part-way through.
C29_Witness ==
    \E s \in Running, x \in Running :
        /\ s # x
        /\ step.op = "silence" /\ step.eng = s /\ step.threw
        /\ heap[s].isInjecting
        /\ heap[x].lastValue = Num(42)
        /\ "temperature" \in DOMAIN heap[x].lastKnown
        /\ heap[x].timeout.state = "armed"
        /\ heap[x].timeout.left = 1
        /\ ~heap[x].isInjecting

\* The paths a channel publishes to: its primary path and the companion
\* paths of the configured fields.
PathsOf(s) ==
    {heap[s].config.path}
    \cup { CompanionPath(heap[s], f) :
             f \in Configured \cap (ActiveFields \cup PassiveFields) }

\* C30: Channels publish to distinct paths.  No two channels of the
\* collection have the same primary path, and the paths one channel
\* publishes to (primary and companions) are disjoint from those of every
\* other channel.
C30_DistinctPaths ==
    \A i \in 1..Len(engines), j \in 1..Len(engines) :
        i # j =>
           /\ heap[engines[i]].config.path # heap[engines[j]].config.path
           /\ PathsOf(engines[i]) \cap PathsOf(engines[j]) = {}

\* C31: Discovery is robust and free of side effects.  No start() ends in
\* an error unless its explicit list holds an entry whose path is not a
\* string, whatever sits under 'propulsion'; when that is absent, null or no
\* object, nothing is discovered, and entries that are no objects are
\* passed over: every auto-configured path names an entry that is an
\* object.  A discovery-only start() leaves engine objects, subscriptions
\* and timers as they were and publishes nothing.
C31_DiscoveryRobust ==
    [][step'.op = "start" =>
         LET t == step'.tree
             explicit == Explicit(options')
         IN  /\ step'.threw =>
                   \E i \in 1..Len(explicit) :
                      explicit[i].pathType \notin {"string", "undefined"}
             /\ (t.type # "object" /\ Len(explicit) = 0) =>
                   step'.monitored = <<>> /\ engines' = <<>>
             /\ Len(explicit) = 0 =>
                   \A c \in Range(step'.monitored) :
                      \E i \in 1..Len(t.entries) :
                         /\ t.entries[i].key = c.path[2]
                         /\ t.entries[i].type = "object"
             /\ options'.discoverOnly =>
                   /\ heap' = heap /\ subs' = subs /\ orphans' = orphans
                   /\ engines' = <<>> /\ out' = <<>>]_vars

\* C31 witness: start() without an explicit list has read a subtree with a
\* null and a number among its entries and monitors the two engines beside
\* them.
C31_Witness ==
    /\ step.op = "start"
    /\ ~step.threw
    /\ Explicit(options) = <<>>
    /\ \E i \in 1..Len(step.tree.entries) : step.tree.entries[i].type = "null"
    /\ \E i \in 1..Len(step.tree.entries) : step.tree.entries[i].type = "number"
    /\ Len(engines) = 2

\* The label discovery reports for the leaf at a path: the label of the
\* metadata stored beside it, 'unknown' when there is none.
LabelOf(tree, path) ==
    LET m == GetSelfMeta(tree, path)
    IN  IF m.present /\ m.source.present
           /\ m.source.label \notin {Undefined, Null, Str("")}
        THEN m.source.label ELSE Str("unknown")

\* C32: Discovery matching.  For the subtree a start() has read, discovery
\* returns one candidate for each second-level field named 'runtime' or
\* 'runhours' when case is ignored, under the path spelled as in the tree,
\* and none for any other field; each candidate's source is the label of
\* the leaf's metadata, or 'unknown'.
C32_DiscoveryMatching ==
    step.op = "start" =>
       LET d == discoverEngines(step.tree)
       IN  /\ Len(d) = Cardinality(RunPaths(step.tree))
           /\ { d[i].path : i \in 1..Len(d) } = RunPaths(step.tree)
           /\ \A i \in 1..Len(d) : d[i].source = LabelOf(step.tree, d[i].path)

\* C32 witness: the subtree read holds RUNTIME with metadata that has no
\* label, runHours with a labelled source, and a field that is no run time.
C32_Witness ==
    /\ step.op = "start"
    /\ LET d == discoverEngines(step.tree)
       IN  /\ Len(d) = 2
           /\ d[1] = [path |-> <<"propulsion", "port", "RUNTIME">>,
                      unit |-> "seconds", source |-> Str("unknown")]
           /\ d[2] = [path |-> <<"propulsion", "gen", "runHours">>,
                      unit |-> "hours", source |-> Str("B")]

\* default: 6 of plugin.schema.properties.startDelaySeconds
DefaultDelay == 6

\* C33: Default silence delay.  When the options given to start() have no
\* startDelaySeconds, the silence timer armed by start() for a restored
\* value, and the one armed by every accepted update, waits 6 seconds.
C33_DefaultSilenceDelay ==
    \A s \in Running :
        (/\ options.startDelaySeconds = Undefined
         /\ \/ step.op = "start" /\ heap[s].lastValue # Null
            \/ IsRuntime(step, s) /\ Genuine(heap[s], step.val, step.src))
        => heap[s].timeout = Armed(DefaultDelay, 0)

\* C34: The injecting flag agrees with the ticker.  In every state of every
\* channel isInjecting is true exactly when the channel has a ticker that
\* is still to fire.
C34_FlagAgreesWithTicker ==
    \A s \in DOMAIN heap : heap[s].isInjecting <=> TickerActive(s)

\* C35: No dead channel.  Between start() and stop(), a channel that holds
\* a value has its silence timer pending or its ticker active.
C35_NoDeadChannel ==
    \A s \in Running :
        heap[s].lastValue # Null => SilenceActive(s) \/ TickerActive(s)

\* C37: Rejected events never interrupt injection.  On a channel that is
\* injecting, a primary-path event that is not a number, is labelled as the
\* plugin's own, or comes from a source the filter does not admit leaves
\* the flag set and the ticker with the seconds it has left, arms no
\* silence timer and publishes nothing.
C37_RejectedEventsKeepInjection ==
    [][\A s \in DOMAIN heap :
         (/\ IsRuntime(step', s)
          /\ heap[s].isInjecting
          /\ ~Genuine(heap[s], step'.val, step'.src))
         => /\ heap'[s].isInjecting
            /\ heap'[s].interval = heap[s].interval
            /\ heap'[s].timeout = heap[s].timeout
            /\ heap'[s].timeout.state # "armed"
            /\ orphans' = orphans
            /\ out' = <<>>]_vars

\* C37 witness: a source the filter does not admit has delivered a new
\* number to an injecting channel one second before its next tick; the
\* ticker still has that second to go.
C37_Witness ==
    \E s \in Running :
        /\ IsRuntime(step, s)
        /\ step.wasInj
        /\ Unauthorized(heap[s], step)
        /\ step.val = Num(42)
        /\ heap[s].lastValue = Num(41)
        /\ heap[s].isInjecting
        /\ heap[s].interval = Armed(1, 2)

\* C38: A silence timer is only armed for a channel that holds a value.  A
\* channel whose silence timer is pending has a number as lastValue; so the
\* fire of a silence timer leaves the channel injecting, and on a channel
\* that was not injecting it publishes one delta and starts the ticker
\* unless the publish call raises an error.
C38_SilenceTimerNeedsValue ==
    /\ \A s \in DOMAIN heap :
          SilenceActive(s) => TypeOf(heap[s].lastValue) = "number"
    /\ (step.op = "silence" /\ step.eng \in DOMAIN heap) =>
          /\ heap[step.eng].isInjecting
          /\ (~step.wasInj /\ ~step.threw) =>
                /\ Published(out, step.eng) = 1
                /\ TickerActive(step.eng)

\* C38 witness: the silence timer of a channel that was created without a
\* value and has since taken 42 fires and starts the injection.
C38_Witness ==
    \E s \in Running :
        /\ step.op = "silence" /\ step.eng = s
        /\ ~step.wasInj
        /\ heap[s].lastValue = Num(42)
        /\ hist[s].since = D
        /\ heap[s].isInjecting
        /\ Len(out) = 1

\* C36: Echo of the engine's own emission does not break the state
\* machine.  Under a bus that hands the published primary value back to the
\* channel's callback with no source in the metadata, no channel has a
\* silence timer and a ticker at once, the injecting flag agrees with the
\* ticker, and a channel that has just published or has just been handed
\* its own value back while injecting is injecting still, ticker running.
C36_EchoKeepsStateMachine ==
    \A s \in Running :
        /\ ~(SilenceActive(s) /\ TickerActive(s))
        /\ heap[s].isInjecting <=> TickerActive(s)
        /\ (step.eng = s /\ step.op \in {"silence", "tick"}) =>
              heap[s].isInjecting /\ TickerActive(s)
        /\ (/\ IsRuntime(step, s) /\ step.wasInj /\ ~step.src.present
            /\ step.val = heap[s].lastValue) =>
              heap[s].isInjecting /\ TickerActive(s)

====
